---- MODULE Spec2Model ----
(***************************************************************************)
(* A model of malvolio, a typed HTML builder and serializer.               *)
(*                                                                         *)
(* Text is modelled by TLA+ strings, character for character: rendering    *)
(* concatenates exactly the pieces the Display impls write.  A HashMap is  *)
(* a function from the set of its keys; the order in which a HashMap or a  *)
(* HashSet is iterated is not fixed by the program, so every enumeration   *)
(* of the keys is a possible iteration order and a node has a SET of       *)
(* possible renderings.                                                    *)
(***************************************************************************)
EXTENDS Integers, Sequences, FiniteSets, TLC

VARIABLES
    node,      \* the node value the caller is building (a struct of tags/*.rs)
    textSrc,   \* history: the entry point that last set node.text, and its input
    attached,  \* history: the (name, value) pairs inserted into node.attrs, in call order
    classValue, \* the Class value the caller is building (its HashSet of tokens)
    classLog,  \* history: the tokens handed to Class::from / Class::class, in call order
    lastOp,    \* history: the last call on a container (op, receiver self, args) and
               \* the children added by the calls before it
    html,      \* the Html document the caller is building
    supplied   \* history: the head / body calls made on html, in call order

vars == <<node, textSrc, attached, classValue, classLog, lastOp, html, supplied>>

(***************************************************************************)
(* Bounds and input domains                                                *)
(***************************************************************************)
MaxAttach == 3

Texts == {"", "hi", "<script>alert(1)</script>", "1<2"}

(***************************************************************************)
(* Strings                                                                 *)
(***************************************************************************)
StartsWithAt(s, i, pre) ==
    /\ i >= 1
    /\ i + Len(pre) - 1 <= Len(s)
    /\ SubSeq(s, i, i + Len(pre) - 1) = pre

Contains(s, sub) == \E i \in 1..(Len(s) + 1) : StartsWithAt(s, i, sub)

(***************************************************************************)
(* The sanitizer (the external crate ammonia): script elements are removed *)
(* with their content, markup-significant characters of the remaining text *)
(* are written as entities, and entities already present are kept.         *)
(***************************************************************************)
RECURSIVE SkipScript(_, _)
SkipScript(s, i) ==
    IF i > Len(s) THEN i
    ELSE IF StartsWithAt(s, i, "</script>") THEN i + 9
    ELSE SkipScript(s, i + 1)

RECURSIVE CleanFrom(_, _)
CleanFrom(s, i) ==
    IF i > Len(s) THEN ""
    ELSE IF StartsWithAt(s, i, "<script>") THEN CleanFrom(s, SkipScript(s, i + 8))
    ELSE IF StartsWithAt(s, i, "&lt;") THEN "&lt;" \o CleanFrom(s, i + 4)
    ELSE IF StartsWithAt(s, i, "&gt;") THEN "&gt;" \o CleanFrom(s, i + 4)
    ELSE IF StartsWithAt(s, i, "&amp;") THEN "&amp;" \o CleanFrom(s, i + 5)
    ELSE LET c == SubSeq(s, i, i)
         IN  (IF c = "<" THEN "&lt;"
              ELSE IF c = ">" THEN "&gt;"
              ELSE IF c = "&" THEN "&amp;"
              ELSE c) \o CleanFrom(s, i + 1)

clean(s) == CleanFrom(s, 1)

(***************************************************************************)
(* HashMap<Cow<str>, Cow<str>>                                             *)
(***************************************************************************)
HashMap_new == [k \in {} |-> ""]

HashMap_insert_keep(m, k, v) ==
    [x \in DOMAIN m \cup {k} |-> IF x \in DOMAIN m THEN m[x] ELSE v]

HashMap_insert(m, k, v) ==
    [x \in DOMAIN m \cup {k} |-> IF x = k THEN v ELSE m[x]]

HashMap_get(m, k) == IF k \in DOMAIN m THEN <<"Some", m[k]>> ELSE <<"None">>

\* every order in which the elements of S can be iterated
Orders(S) ==
    {f \in [1..Cardinality(S) -> S] : \A i, j \in DOMAIN f : i # j => f[i] # f[j]}

(***************************************************************************)
(* The attribute protocol.  An attribute value is a record tagged with its *)
(* variant in the grouping enum; into_attribute dispatches on the variant. *)
(* A Class holds a HashSet of tokens, whose iteration order is open.       *)
(***************************************************************************)
RECURSIVE join(_, _)
join(seq, sep) ==
    IF seq = <<>> THEN ""
    ELSE IF Len(seq) = 1 THEN seq[1]
    ELSE seq[1] \o sep \o join(Tail(seq), sep)

Class_into_attribute_nosep(set, ord) == <<"class", join(ord, "")>>

Class_into_attribute(set, ord) == <<"class", join(ord, " ")>>

Id_new(c) == [variant |-> "Id", value |-> c]
Style_new(c) == [variant |-> "Style", value |-> c]
Href_new(c) == [variant |-> "Href", value |-> c]
Download_new(c) == [variant |-> "Download", value |-> c]
Target_Blank == [variant |-> "Target", value |-> "Blank"]
Alt_new(c) == [variant |-> "Alt", value |-> c]
Src_new(c) == [variant |-> "Src", value |-> c]
Name_new(c) == [variant |-> "Name", value |-> c]
Value_new(c) == [variant |-> "Value", value |-> c]
Placeholder_new(s) == [variant |-> "Placeholder", value |-> s]
Content_new(c) == [variant |-> "Content", value |-> c]
Action_new(input) == [variant |-> "Action", value |-> input]
Class_new == [variant |-> "Class", value |-> {}]

\* the enumerations Type, MetaName and Method
TypeVariants ==
    {"Text", "Email", "Password", "Textarea", "Submit", "Hidden", "DateTimeLocal", "Checkbox"}
MetaNameVariants == {"Charset", "Viewport"}
MethodVariants == {"Post", "Get"}
TargetVariants == {"Blank"}

Type(v) == [variant |-> "Type", value |-> v]
MetaName(v) == [variant |-> "MetaName", value |-> v]
Method(v) == [variant |-> "Method", value |-> v]

Type_into_attribute_merged(v) ==
    <<"type",
      CASE v = "Text" -> "text"
        [] v = "Email" -> "email"
        [] v = "Password" -> "password"
        [] v = "Submit" -> "submit"
        [] v = "Textarea" -> "text"
        [] v = "Hidden" -> "hidden"
        [] v = "DateTimeLocal" -> "datetime-local"
        [] v = "Checkbox" -> "checkbox">>

Type_into_attribute(v) ==
    <<"type",
      CASE v = "Text" -> "text"
        [] v = "Email" -> "email"
        [] v = "Password" -> "password"
        [] v = "Submit" -> "submit"
        [] v = "Textarea" -> "textarea"
        [] v = "Hidden" -> "hidden"
        [] v = "DateTimeLocal" -> "datetime-local"
        [] v = "Checkbox" -> "checkbox">>

MetaName_into_attribute_content(v) ==
    <<"content", CASE v = "Charset" -> "charset" [] v = "Viewport" -> "viewport">>

MetaName_into_attribute(v) ==
    <<"name", CASE v = "Charset" -> "charset" [] v = "Viewport" -> "viewport">>

Method_into_attribute(v) ==
    <<"method", CASE v = "Post" -> "post" [] v = "Get" -> "get">>

Class_from(str) == [variant |-> "Class", value |-> {str}]

Class_class_replace(self, class) == [self EXCEPT !.value = {class}]

Class_class(self, class) == [self EXCEPT !.value = self.value \cup {class}]

\* the pairs into_attribute can return for attribute a
into_attribute(a) ==
    CASE a.variant = "Class" ->
            {Class_into_attribute(a.value, ord) : ord \in Orders(a.value)}
      [] a.variant = "Id" -> {<<"id", a.value>>}
      [] a.variant = "Style" -> {<<"style", a.value>>}
      [] a.variant = "Href" -> {<<"href", a.value>>}
      [] a.variant = "Download" -> {<<"download", a.value>>}
      [] a.variant = "Target" ->
            {<<"target", CASE a.value = "Blank" -> "_blank">>}
      [] a.variant = "Alt" -> {<<"alt", a.value>>}
      [] a.variant = "Src" -> {<<"src", a.value>>}
      [] a.variant = "Name" -> {<<"name", a.value>>}
      [] a.variant = "Value" -> {<<"value", a.value>>}
      [] a.variant = "Placeholder" -> {<<"placeholder", a.value>>}
      [] a.variant = "Content" -> {<<"content", a.value>>}
      [] a.variant = "Action" -> {<<"action", a.value>>}
      [] a.variant = "Type" -> {Type_into_attribute(a.value)}
      [] a.variant = "MetaName" -> {MetaName_into_attribute(a.value)}
      [] a.variant = "Method" -> {Method_into_attribute(a.value)}

\* the members of each attribute grouping enum the model draws from
HeadingAttr == {Class_from("a"), Id_new("1"), Id_new("2"), Style_new("s")}
AAttr == {Href_new("https://example.com"), Href_new("1"), Download_new("f"),
          Target_Blank, Id_new("1")}
SelectOptionAttr == {Value_new("1"), Value_new("2"), Id_new("1"), Name_new("n")}
ImgAttr == {Alt_new("1"), Alt_new("2"), Src_new("cat.jpeg")}
PAttr == {Id_new("1"), Id_new("2"), Class_from("a")}
DivAttr == {Id_new("1"), Class_from("a"), Style_new("s")}
InputAttr ==
    {Type(v) : v \in TypeVariants}
        \cup {Name_new("n"), Placeholder_new("1<2 & 3"), Id_new("1"), Class_from("a"),
              Value_new("say \"hi\""), Value_new("1"), Style_new("s")}
MetaAttr == {MetaName(v) : v \in MetaNameVariants} \cup {Content_new("utf-8"), Content_new("a\"b")}
FormAttr == {Method(v) : v \in MethodVariants} \cup {Action_new("/"), Action_new("/a?b=\"c\""), Style_new("s")}

\* the (key, value) arguments of raw_attribute the model draws from
RawPairs == {<<"data-x", "1">>, <<"data-x", "2">>, <<"id", "9">>}

(***************************************************************************)
(* Nodes.  Every struct is a record with the fields kind, text, attrs and  *)
(* children; a struct that lacks a field keeps it empty.                   *)
(***************************************************************************)
Headings == {"H1", "H2", "H3", "H4", "H5", "H6"}
HeadingLike == Headings \cup {"Label", "Title", "Text"}

NoNode == [kind |-> "none", text |-> "", attrs |-> HashMap_new, children |-> <<>>]

\* impl_of_heading_new_fn: $name::new
Heading_new_raw(name, from) ==
    [kind |-> name, text |-> from, attrs |-> HashMap_new, children |-> <<>>]

Heading_new(name, from) ==
    [kind |-> name, text |-> clean(from), attrs |-> HashMap_new, children |-> <<>>]

\* impl_of_heading_new_fn: $name::new_unchecked
Heading_new_unchecked_clean(name, from) ==
    [kind |-> name, text |-> clean(from), attrs |-> HashMap_new, children |-> <<>>]

Heading_new_unchecked(name, from) ==
    [kind |-> name, text |-> from, attrs |-> HashMap_new, children |-> <<>>]

Heading_attribute_keep(self, pair) ==
    [self EXCEPT !.attrs = HashMap_insert_keep(self.attrs, pair[1], pair[2])]

\* impl_of_heading_new_fn: $name::attribute, with (a, b) the pair that
\* a.into().into_attribute() returned
Heading_attribute(self, pair) ==
    [self EXCEPT !.attrs = HashMap_insert(self.attrs, pair[1], pair[2])]

\* define_raw_attribute_fn: raw_attribute
raw_attribute(self, key, value) ==
    [self EXCEPT !.attrs = HashMap_insert(self.attrs, key, value)]

read_attribute(self, a) == HashMap_get(self.attrs, a)

\* A
A_new == [kind |-> "A", text |-> "", attrs |-> HashMap_new, children |-> <<>>]

A_text_append(self, text) == [self EXCEPT !.text = self.text \o clean(text)]

A_text(self, text) == [self EXCEPT !.text = clean(text)]

A_text_unsanitized(self, text) == [self EXCEPT !.text = text]

A_attribute(self, res) ==
    [self EXCEPT !.attrs = HashMap_insert(self.attrs, res[1], res[2])]

\* Href::new and Id::new convert to exactly one pair
A_href_keep(self, href) ==
    [self EXCEPT !.attrs = HashMap_insert_keep(self.attrs, "href", href)]

A_href(self, href) ==
    A_attribute(self, CHOOSE res \in into_attribute(Href_new(href)) : TRUE)

A_id(self, id) ==
    A_attribute(self, CHOOSE res \in into_attribute(Id_new(id)) : TRUE)

\* Input
Input_new == [kind |-> "Input", text |-> "", attrs |-> HashMap_new, children |-> <<>>]

Input_attribute(self, pair) ==
    [self EXCEPT !.attrs = HashMap_insert(self.attrs, pair[1], pair[2])]

\* Meta
Meta_new == [kind |-> "Meta", text |-> "", attrs |-> HashMap_new, children |-> <<>>]

Meta_attribute(self, pair) ==
    [self EXCEPT !.attrs = HashMap_insert(self.attrs, pair[1], pair[2])]

\* SelectOption
SelectOption_new ==
    [kind |-> "SelectOption", text |-> "", attrs |-> HashMap_new, children |-> <<>>]

SelectOption_text(self, text) == [self EXCEPT !.text = clean(text)]

SelectOption_text_unsanitized(self, text) == [self EXCEPT !.text = text]

SelectOption_attribute(self, pair) ==
    [self EXCEPT !.attrs = HashMap_insert(self.attrs, pair[1], pair[2])]

\* NoScript, StyleTag, Img
NoScript_new(text) ==
    [kind |-> "NoScript", text |-> text, attrs |-> HashMap_new, children |-> <<>>]

StyleTag_new(c) ==
    [kind |-> "StyleTag", text |-> c, attrs |-> HashMap_new, children |-> <<>>]

Img_new == [kind |-> "Img", text |-> "", attrs |-> HashMap_new, children |-> <<>>]

Img_attribute(self, res) ==
    [self EXCEPT !.attrs = HashMap_insert(self.attrs, res[1], res[2])]

\* P
P_default == [kind |-> "P", text |-> "", attrs |-> HashMap_new, children |-> <<>>]

P_with_text(text) == [P_default EXCEPT !.text = clean(text)]

P_new(text) == P_with_text(text)

P_new_unchecked(text) == [P_default EXCEPT !.text = text]

P_attribute(self, pair) ==
    [self EXCEPT !.attrs = HashMap_insert(self.attrs, pair[1], pair[2])]

(***************************************************************************)
(* Rendering (the Display impls).  ord is the order in which the HashMap   *)
(* hands out its entries.                                                  *)
(***************************************************************************)
RECURSIVE write_attributes(_, _)
write_attributes(attrs, ord) ==
    IF ord = <<>> THEN ""
    ELSE ord[1] \o "=\"" \o attrs[ord[1]] \o "\"" \o write_attributes(attrs, Tail(ord))

\* the loop written out in the Display impls of A, Img, Body, Div, Form, Input, Meta
RECURSIVE write_attrs_inline(_, _)
write_attrs_inline(attrs, ord) ==
    IF ord = <<>> THEN ""
    ELSE " " \o ord[1] \o "=\"" \o attrs[ord[1]] \o "\""
             \o write_attrs_inline(attrs, Tail(ord))

heading_display_unclosed(self, ord) ==
    "<" \o self.kind \o " " \o write_attributes(self.attrs, ord) \o ">" \o self.text

heading_display(self, ord) ==
    "<" \o self.kind \o " " \o write_attributes(self.attrs, ord) \o ">"
        \o self.text \o "</" \o self.kind \o ">"

Text_fmt_attrs(self) ==
    write_attributes(self.attrs, CHOOSE ord \in Orders(DOMAIN self.attrs) : TRUE) \o self.text

Text_fmt(self) == self.text

A_fmt(self, ord) ==
    "<a" \o write_attrs_inline(self.attrs, ord) \o "\"" \o ">" \o self.text \o "</a>"

Img_fmt(self, ord) == "<img" \o write_attrs_inline(self.attrs, ord) \o "\"" \o "/>"

SelectOption_fmt(self, ord) ==
    "<option " \o write_attributes(self.attrs, ord) \o ">" \o self.text \o "</option>"

\* Br is a unit struct: it has no fields and no methods
Br == [kind |-> "Br", text |-> "", attrs |-> HashMap_new, children |-> <<>>]

Br_fmt_open(self) == "<br>"

Br_fmt(self) == "<br/>"

Input_fmt(self, ord) == "<input" \o write_attrs_inline(self.attrs, ord) \o "/>"

Meta_fmt(self, ord) == "<meta" \o write_attrs_inline(self.attrs, ord) \o "/>"

NoScript_fmt(self) == "<noscript>" \o self.text \o "</noscript>"

StyleTag_fmt(self) == "<style>" \o self.text \o "</style>"

(***************************************************************************)
(* Containers                                                              *)
(***************************************************************************)
Body_new == [kind |-> "Body", text |-> "", attrs |-> HashMap_new, children |-> <<>>]

Body_children_rev(self, children) ==
    [self EXCEPT !.children = children \o self.children]

Body_children(self, children) ==
    [self EXCEPT !.children = self.children \o children]

Body_child_front(self, child) ==
    [self EXCEPT !.children = <<child>> \o self.children]

Body_child(self, child) ==
    [self EXCEPT !.children = Append(self.children, child)]

Div_new == [kind |-> "Div", text |-> "", attrs |-> HashMap_new, children |-> <<>>]

Div_attribute(self, pair) ==
    [self EXCEPT !.attrs = HashMap_insert(self.attrs, pair[1], pair[2])]

Div_children(self, children) ==
    [self EXCEPT !.children = self.children \o children]

Div_child_replace(self, child) ==
    [self EXCEPT !.children = <<child>>]

Div_child(self, child) ==
    [self EXCEPT !.children = Append(self.children, child)]

Form_new == [kind |-> "Form", text |-> "", attrs |-> HashMap_new, children |-> <<>>]

Form_attribute_clear(self, res) ==
    [self EXCEPT !.attrs = HashMap_insert(self.attrs, res[1], res[2]), !.children = <<>>]

Form_attribute(self, res) ==
    [self EXCEPT !.attrs = HashMap_insert(self.attrs, res[1], res[2])]

Form_children(self, children) ==
    [self EXCEPT !.children = self.children \o children]

Form_child(self, child) ==
    [self EXCEPT !.children = Append(self.children, child)]

Select_new == [kind |-> "Select", text |-> "", attrs |-> HashMap_new, children |-> <<>>]

Select_children(self, children) ==
    [self EXCEPT !.children = self.children \o children]

Select_child(self, child) ==
    [self EXCEPT !.children = Append(self.children, child)]

Head_new == [kind |-> "Head", text |-> "", attrs |-> HashMap_new, children |-> <<>>]

Head_children_rev(self, children) ==
    [self EXCEPT !.children = children \o self.children]

Head_children(self, children) ==
    [self EXCEPT !.children = self.children \o children]

Head_child(self, child) ==
    [self EXCEPT !.children = Append(self.children, child)]

P_children(self, children) ==
    [self EXCEPT !.children = self.children \o children]

P_child(self, child) ==
    [self EXCEPT !.children = Append(self.children, child)]

\* the Display impls of the containers; inner is the text the loop over
\* self.children has written
\* P::text and P::text_unsanitized: self.child(BodyNode::Text(..))
P_text(self, text) == P_child(self, Heading_new("Text", text))

P_text_unsanitized(self, text) == P_child(self, Heading_new_unchecked("Text", text))

P_fmt_children_first(self, ord, inner) ==
    "<p " \o write_attributes(self.attrs, ord) \o ">" \o inner \o self.text \o "</p>"

P_fmt(self, ord, inner) ==
    "<p " \o write_attributes(self.attrs, ord) \o ">" \o self.text \o inner \o "</p>"

Body_fmt(self, ord, inner) ==
    "<body" \o write_attrs_inline(self.attrs, ord) \o ">" \o inner \o "</body>"

Div_fmt_spaced(self, ord, inner) ==
    "<div" \o write_attrs_inline(self.attrs, ord) \o ">" \o " " \o inner \o "</div>"

Div_fmt(self, ord, inner) ==
    "<div" \o write_attrs_inline(self.attrs, ord) \o ">" \o inner \o "</div>"

Form_fmt(self, ord, inner) ==
    "<form " \o write_attrs_inline(self.attrs, ord) \o ">" \o inner \o "</form>"

Select_fmt(self, ord, inner) ==
    "<select " \o write_attributes(self.attrs, ord) \o ">" \o inner \o "</select>"

Head_fmt(self, inner) == "<head>" \o inner \o "</head>"

(***************************************************************************)
(* enum_display and the recursion through the children: the set of texts   *)
(* rendering node n can produce, one for every choice of iteration orders. *)
(***************************************************************************)
RECURSIVE Renders(_)
RECURSIVE RendersAll(_)

\* the variants of the grouping unions and the arms enum_display is given
BodyNodeVariants ==
    {"H1", "H2", "H3", "H4", "H5", "H6", "P", "Text", "Form", "Br", "Div", "A", "Input",
     "Label", "Select", "NoScript", "Img"}

BodyNodeArms_short ==
    {"H1", "H2", "H3", "H4", "H5", "H6", "P", "Br", "Text", "Form", "Div", "A", "Input",
     "Select", "NoScript", "Img"}

BodyNodeArms ==
    {"H1", "H2", "H3", "H4", "H5", "H6", "P", "Br", "Text", "Form", "Div", "A", "Input",
     "Select", "NoScript", "Img", "Label"}

HeadNodeVariants == {"Title", "Meta", "StyleTag"}

HeadNodeArms == {"Title", "Meta", "StyleTag"}

\* the outcome of the arm _ => panic!(..)
Panic == "panicked: Virtual components are not supported."

\* the member's own Display when the variant has an arm, else the panic arm
enum_display(x) ==
    IF x.kind \in BodyNodeVariants
    THEN (IF x.kind \in BodyNodeArms THEN Renders(x) ELSE {Panic})
    ELSE (IF x.kind \in HeadNodeArms THEN Renders(x) ELSE {Panic})

\* the renderings of a sequence of children, concatenated in sequence order;
\* a Select holds SelectOptions themselves, the other containers hold
\* BodyNodes or HeadNodes
RendersAll(children) ==
    IF children = <<>> THEN {""}
    ELSE {r \o rest :
            r \in (IF children[1].kind = "SelectOption" THEN Renders(children[1])
                   ELSE enum_display(children[1])),
            rest \in RendersAll(Tail(children))}

Renders(n) ==
    LET ords == Orders(DOMAIN n.attrs)
        inners == RendersAll(n.children)
    IN  CASE n.kind \in HeadingLike \ {"Text"} -> {heading_display(n, o) : o \in ords}
          [] n.kind = "Text" -> {Text_fmt(n)}
          [] n.kind = "A" -> {A_fmt(n, o) : o \in ords}
          [] n.kind = "Img" -> {Img_fmt(n, o) : o \in ords}
          [] n.kind = "SelectOption" -> {SelectOption_fmt(n, o) : o \in ords}
          [] n.kind = "Br" -> {Br_fmt(n)}
          [] n.kind = "Input" -> {Input_fmt(n, o) : o \in ords}
          [] n.kind = "Meta" -> {Meta_fmt(n, o) : o \in ords}
          [] n.kind = "NoScript" -> {NoScript_fmt(n)}
          [] n.kind = "StyleTag" -> {StyleTag_fmt(n)}
          [] n.kind = "P" -> {P_fmt(n, o, i) : o \in ords, i \in inners}
          [] n.kind = "Body" -> {Body_fmt(n, o, i) : o \in ords, i \in inners}
          [] n.kind = "Div" -> {Div_fmt(n, o, i) : o \in ords, i \in inners}
          [] n.kind = "Form" -> {Form_fmt(n, o, i) : o \in ords, i \in inners}
          [] n.kind = "Select" -> {Select_fmt(n, o, i) : o \in ords, i \in inners}
          [] n.kind = "Head" -> {Head_fmt(n, i) : i \in inners}
          [] n.kind = "none" -> {}

(***************************************************************************)
(* The document root                                                       *)
(***************************************************************************)
Html_default == [head |-> Head_new, body |-> Body_new]

Html_head_merge(self, head) ==
    [self EXCEPT !.head = Head_children(self.head, head.children)]

Html_head(self, head) == [self EXCEPT !.head = head]

Html_body(self, body) == [self EXCEPT !.body = body]

Html_fmt_body_first(self, head, body) ==
    "<!DOCTYPE html>" \o "<html>" \o body \o head \o "</html>"

Html_fmt(self, head, body) ==
    "<!DOCTYPE html>" \o "<html>" \o head \o body \o "</html>"

HtmlRenders(self) ==
    {Html_fmt(self, h, b) : h \in Renders(self.head), b \in Renders(self.body)}

(***************************************************************************)
(* Initial state: nothing built yet.                                       *)
(***************************************************************************)
NoSrc == [via |-> "none", input |-> ""]
NoOp == [op |-> "none", self |-> NoNode, args |-> <<>>, added |-> <<>>]

Init ==
    /\ node = NoNode
    /\ textSrc = NoSrc
    /\ attached = <<>>
    /\ classValue = Class_new
    /\ classLog = <<>>
    /\ lastOp = NoOp
    /\ html = Html_default
    /\ supplied = <<>>

Others == <<classValue, classLog, lastOp, html, supplied>>

(***************************************************************************)
(* Building a leaf: constructors, text setters, attribute attachment.  A   *)
(* behaviour is one builder chain: it starts with a constructor.           *)
(***************************************************************************)
Construct(n, via, t) ==
    /\ node' = n
    /\ textSrc' = [via |-> via, input |-> t]
    /\ attached' = <<>>
    /\ UNCHANGED Others

SetText(n, via, t) ==
    /\ node' = n
    /\ textSrc' = [via |-> via, input |-> t]
    /\ UNCHANGED <<attached, Others>>

Attach(n, pair) ==
    /\ Len(attached) < MaxAttach
    /\ node' = n
    /\ attached' = Append(attached, pair)
    /\ UNCHANGED <<textSrc, Others>>

Do_Heading_new ==
    /\ node = NoNode
    /\ \E name \in HeadingLike, t \in Texts : Construct(Heading_new(name, t), "new", t)

Do_Heading_new_unchecked ==
    /\ node = NoNode
    /\ \E name \in HeadingLike, t \in Texts :
          Construct(Heading_new_unchecked(name, t), "new_unchecked", t)

Do_Heading_attribute ==
    /\ node.kind \in HeadingLike
    /\ \E a \in HeadingAttr : \E pair \in into_attribute(a) :
          Attach(Heading_attribute(node, pair), pair)

Do_raw_attribute ==
    /\ node.kind \in HeadingLike \cup {"SelectOption"}
    /\ \E kv \in RawPairs : Attach(raw_attribute(node, kv[1], kv[2]), kv)

Do_A_new ==
    /\ node = NoNode
    /\ Construct(A_new, "default", "")

Do_A_text ==
    /\ node.kind = "A"
    /\ \E t \in Texts : SetText(A_text(node, t), "text", t)

Do_A_text_unsanitized ==
    /\ node.kind = "A"
    /\ \E t \in Texts : SetText(A_text_unsanitized(node, t), "text_unsanitized", t)

Do_A_attribute ==
    /\ node.kind = "A"
    /\ \E a \in AAttr : \E res \in into_attribute(a) : Attach(A_attribute(node, res), res)

Do_SelectOption_new ==
    /\ node = NoNode
    /\ Construct(SelectOption_new, "default", "")

Do_SelectOption_text ==
    /\ node.kind = "SelectOption"
    /\ \E t \in Texts : SetText(SelectOption_text(node, t), "text", t)

Do_SelectOption_text_unsanitized ==
    /\ node.kind = "SelectOption"
    /\ \E t \in Texts :
          SetText(SelectOption_text_unsanitized(node, t), "text_unsanitized", t)

Do_SelectOption_attribute ==
    /\ node.kind = "SelectOption"
    /\ \E a \in SelectOptionAttr : \E pair \in into_attribute(a) :
          Attach(SelectOption_attribute(node, pair), pair)

Do_NoScript_new ==
    /\ node = NoNode
    /\ \E t \in Texts : Construct(NoScript_new(t), "new", t)

Do_StyleTag_new ==
    /\ node = NoNode
    /\ \E t \in Texts : Construct(StyleTag_new(t), "new", t)

Do_Img_new ==
    /\ node = NoNode
    /\ Construct(Img_new, "default", "")

Do_Img_attribute ==
    /\ node.kind = "Img"
    /\ \E a \in ImgAttr : \E res \in into_attribute(a) : Attach(Img_attribute(node, res), res)

Do_P_new ==
    /\ node = NoNode
    /\ \E t \in Texts : Construct(P_new(t), "new", t)

Do_P_with_text ==
    /\ node = NoNode
    /\ \E t \in Texts : Construct(P_with_text(t), "with_text", t)

Do_P_new_unchecked ==
    /\ node = NoNode
    /\ \E t \in Texts : Construct(P_new_unchecked(t), "new_unchecked", t)

Do_P_attribute ==
    /\ node.kind = "P"
    /\ \E a \in PAttr : \E pair \in into_attribute(a) : Attach(P_attribute(node, pair), pair)

Next ==
    \/ Do_Heading_new
    \/ Do_Heading_new_unchecked
    \/ Do_Heading_attribute
    \/ Do_raw_attribute
    \/ Do_A_new
    \/ Do_A_text
    \/ Do_A_text_unsanitized
    \/ Do_A_attribute
    \/ Do_SelectOption_new
    \/ Do_SelectOption_text
    \/ Do_SelectOption_text_unsanitized
    \/ Do_SelectOption_attribute
    \/ Do_NoScript_new
    \/ Do_StyleTag_new
    \/ Do_Img_new
    \/ Do_Img_attribute
    \/ Do_P_new
    \/ Do_P_with_text
    \/ Do_P_new_unchecked
    \/ Do_P_attribute

Spec == Init /\ [][Next]_vars

(***************************************************************************)
(* Properties of text storage                                              *)
(***************************************************************************)
SanitizingVia == {"new", "with_text", "text"}
UncheckedVia == {"new_unchecked", "text_unsanitized"}
SanitizingKinds == HeadingLike \cup {"P", "A", "SelectOption"}
TextKinds == SanitizingKinds \cup {"NoScript", "StyleTag"}

\* C1: a node whose text was last set through a sanitizing entry point
\* (new on headings, Label, Title, Text and P, P::with_text, text on A and
\* SelectOption) with input t stores clean(t), so never the raw t when
\* clean(t) differs from t, every rendering of it contains clean(t), and when
\* t contains "<script>" no rendering contains "<script>".
SanitizedTextStored ==
    (node.kind \in SanitizingKinds /\ textSrc.via \in SanitizingVia) =>
        /\ node.text = clean(textSrc.input)
        /\ clean(textSrc.input) # textSrc.input => node.text # textSrc.input
        /\ \A r \in Renders(node) :
              /\ Contains(r, clean(textSrc.input))
              /\ Contains(textSrc.input, "<script>") => ~Contains(r, "<script>")

SanitizedScriptBuilt ==
    /\ node.kind \in Headings
    /\ textSrc = [via |-> "new", input |-> "<script>alert(1)</script>"]
    /\ DOMAIN node.attrs # {}

\* C2: a node whose text was last set through an unchecked entry point
\* (new_unchecked, text_unsanitized) with input t stores t unchanged, every
\* rendering of it contains t verbatim, and a Text renders to exactly t.
UncheckedTextStored ==
    (node.kind \in SanitizingKinds /\ textSrc.via \in UncheckedVia) =>
        /\ node.text = textSrc.input
        /\ \A r \in Renders(node) :
              /\ Contains(r, textSrc.input)
              /\ node.kind = "Text" => r = textSrc.input

UncheckedScriptBuilt ==
    /\ node.kind = "Text"
    /\ textSrc = [via |-> "new_unchecked", input |-> "<script>alert(1)</script>"]
    /\ node.text # clean(textSrc.input)

\* C3: on every node type that stores text (headings, Label, Title, Text, P,
\* A, SelectOption, NoScript, StyleTag) text that came in through an entry
\* point not named unchecked / unsanitized is stored sanitized.
DefaultEntryPointSanitizes ==
    (node.kind \in TextKinds /\ textSrc.via \notin UncheckedVia) =>
        node.text = clean(textSrc.input)

(***************************************************************************)
(* Properties of the attribute map                                         *)
(***************************************************************************)
AttrNames ==
    {"class", "id", "style", "href", "download", "target", "alt", "src",
     "name", "value", "data-x", "title"}

AttachedNames == {attached[i][1] : i \in DOMAIN attached}

\* the value of the most recent attachment under name n
LastAttached(n) ==
    LET is == {i \in DOMAIN attached : attached[i][1] = n}
    IN  IF is = {} THEN <<"None">>
        ELSE <<"Some", attached[CHOOSE i \in is : \A j \in is : j <= i][2]>>

\* C4: read_attribute(n) is Some(v) with v the value of the most recent
\* attachment under n, None if n was never attached, and the map holds
\* exactly one entry per attached name.
ReadAttributeLastWins ==
    node.kind # "none" =>
        /\ \A n \in AttrNames : read_attribute(node, n) = LastAttached(n)
        /\ DOMAIN node.attrs = AttachedNames
        /\ DOMAIN node.attrs \subseteq AttrNames

SameNameAttachedTwice ==
    \E i, j \in DOMAIN attached :
        /\ i < j
        /\ attached[i][1] = attached[j][1]
        /\ attached[i][2] # attached[j][2]
        /\ read_attribute(node, attached[j][1]) = <<"Some", attached[j][2]>>

(***************************************************************************)
(* Properties of the rendered open tag of a leaf                           *)
(***************************************************************************)
RECURSIVE StripSpaces(_)
StripSpaces(s) ==
    IF s = "" THEN ""
    ELSE (IF SubSeq(s, 1, 1) = " " THEN "" ELSE SubSeq(s, 1, 1))
             \o StripSpaces(SubSeq(s, 2, Len(s)))

\* the text of r up to and including its first ">"
OpenTagOf(r) ==
    LET is == {i \in 1..Len(r) : SubSeq(r, i, i) = ">"}
    IN  SubSeq(r, 1, CHOOSE i \in is : \A j \in is : i <= j)

AfterOpenTag(r) == SubSeq(r, Len(OpenTagOf(r)) + 1, Len(r))

TaggedLeafKinds == (HeadingLike \ {"Text"}) \cup {"A", "Img", "SelectOption"}
VoidKinds == {"Img"}

TagName(kind) ==
    CASE kind = "A" -> "a"
      [] kind = "Img" -> "img"
      [] kind = "SelectOption" -> "option"
      [] OTHER -> kind

RECURSIVE AttrsText(_, _)
AttrsText(attrs, ord) ==
    IF ord = <<>> THEN ""
    ELSE ord[1] \o "=\"" \o attrs[ord[1]] \o "\"" \o AttrsText(attrs, Tail(ord))

\* the open tags made of the tag name, the attributes and the closing mark only
PlainOpenTags(n) ==
    {"<" \o TagName(n.kind) \o AttrsText(n.attrs, o)
         \o (IF n.kind \in VoidKinds THEN "/>" ELSE ">") :
        o \in Orders(DOMAIN n.attrs)}

\* C9: inside the open tag of a leaf nothing but the tag name, the
\* attributes as name="value" and the closing > (/> for a void element) is
\* written, white space aside; an anchor with href "https://example.com",
\* target blank and download "f" and no text renders as that open tag
\* immediately followed by </a>.
OpenTagIsNameAndAttributes ==
    node.kind \in TaggedLeafKinds =>
        \A r \in Renders(node) :
            /\ StripSpaces(OpenTagOf(r)) \in
                   {StripSpaces(t) : t \in PlainOpenTags(node)}
            /\ (node.kind = "A" /\ node.text = "") => AfterOpenTag(r) = "</a>"

(***************************************************************************)
(* Building a Class value and attaching it to a heading.                   *)
(***************************************************************************)
MaxTokens == 3

ClassTokens == {"a", "b", "c"}

Do_Class_from ==
    /\ classLog = <<>>
    /\ \E str \in ClassTokens :
          /\ classValue' = Class_from(str)
          /\ classLog' = <<str>>
    /\ UNCHANGED <<node, textSrc, attached, lastOp, html, supplied>>

Do_Class_class ==
    /\ classLog # <<>>
    /\ Len(classLog) < MaxTokens
    /\ \E class \in ClassTokens :
          /\ classValue' = Class_class(classValue, class)
          /\ classLog' = Append(classLog, class)
    /\ UNCHANGED <<node, textSrc, attached, lastOp, html, supplied>>

\* h1(text)
Do_h1 ==
    /\ node = NoNode
    /\ Construct(Heading_new("H1", "hi"), "new", "hi")

\* attribute(a) with a the Class value built so far
Do_Heading_attribute_Class ==
    /\ node.kind \in HeadingLike
    /\ classLog # <<>>
    /\ Len(attached) < MaxAttach
    /\ \E pair \in into_attribute(classValue) :
          /\ node' = Heading_attribute(node, pair)
          /\ attached' = Append(attached, pair)
    /\ lastOp' = [op |-> "attribute", self |-> node, args |-> classLog, added |-> <<>>]
    /\ UNCHANGED <<textSrc, classValue, classLog, html, supplied>>

NextClass ==
    \/ Do_Class_from
    \/ Do_Class_class
    \/ Do_h1
    \/ Do_Heading_attribute_Class

SpecClass == Init /\ [][NextClass]_vars

\* the pieces of s between single spaces
RECURSIVE SplitFrom(_, _, _)
SplitFrom(s, i, acc) ==
    IF i > Len(s) THEN <<acc>>
    ELSE IF SubSeq(s, i, i) = " " THEN <<acc>> \o SplitFrom(s, i + 1, "")
    ELSE SplitFrom(s, i + 1, acc \o SubSeq(s, i, i))

Split(s) == SplitFrom(s, 1, "")

Range(seq) == {seq[i] : i \in DOMAIN seq}

\* v lists each token of toks exactly once, separated by single spaces
ListsEachOnce(v, toks) ==
    LET parts == Split(v)
    IN  /\ Range(parts) = toks
        /\ Len(parts) = Cardinality(toks)
        /\ v # "" => (SubSeq(v, 1, 1) # " " /\ SubSeq(v, Len(v), Len(v)) # " ")

\* C7: a Class built by Class::from(x) and then .class(y) calls converts to
\* ("class", v) with v listing each distinct token of the calls exactly
\* once, joined by single spaces, without leading or trailing space (so a
\* token added again changes nothing).  Tokens are non-empty and free of
\* spaces.
ClassIsSetOfTokens ==
    classLog # <<>> =>
        \A pair \in into_attribute(classValue) :
            /\ pair[1] = "class"
            /\ ListsEachOnce(pair[2], Range(classLog))

ClassWithRepeatedToken ==
    /\ Len(classLog) = 3
    /\ classLog[1] = classLog[2]
    /\ classLog[3] # classLog[1]
    /\ Cardinality(classValue.value) = 2

MaxChildren == 3
MaxIter == 2

Items == {"1", "2", "3"}

\* H1::new(item).attribute(Id::new(item))
BodyNodes ==
    {Heading_attribute(Heading_new("H1", item), <<"id", item>>) : item \in Items}
        \cup {Br}

\* SelectOption::new().attribute(Value::new(item)).text(item)
SelectOptions ==
    {SelectOption_text(SelectOption_attribute(SelectOption_new, <<"value", item>>), item) :
        item \in Items}

\* Title::new(item)
HeadNodes == {Heading_new("Title", item) : item \in Items}

\* the sequences an iterator handed to children can yield
Iters(pool) == UNION {[1..n -> pool] : n \in 0..MaxIter}

ContainerKinds == {"Body", "Div", "Form", "P", "Select", "Head"}

Added == lastOp.added \o lastOp.args

StartContainer(n) ==
    /\ node' = n
    /\ lastOp' = NoOp
    /\ UNCHANGED <<textSrc, attached, classValue, classLog, html, supplied>>

CallChild(n, child) ==
    /\ Len(node.children) < MaxChildren
    /\ node' = n
    /\ lastOp' = [op |-> "child", self |-> node, args |-> <<child>>, added |-> Added]
    /\ UNCHANGED <<textSrc, attached, classValue, classLog, html, supplied>>

CallChildren(n, children) ==
    /\ Len(node.children) + Len(children) <= MaxChildren
    /\ node' = n
    /\ lastOp' = [op |-> "children", self |-> node, args |-> children, added |-> Added]
    /\ UNCHANGED <<textSrc, attached, classValue, classLog, html, supplied>>

\* Br
Do_Br ==
    /\ node = NoNode
    /\ StartContainer(Br)

Do_Body_new ==
    /\ node = NoNode
    /\ StartContainer(Body_new)

Do_Body_child ==
    /\ node.kind = "Body"
    /\ \E child \in BodyNodes : CallChild(Body_child(node, child), child)

Do_Body_children ==
    /\ node.kind = "Body"
    /\ \E children \in Iters(BodyNodes) :
          CallChildren(Body_children(node, children), children)

Do_Div_new ==
    /\ node = NoNode
    /\ StartContainer(Div_new)

Do_Div_child ==
    /\ node.kind = "Div"
    /\ \E child \in BodyNodes : CallChild(Div_child(node, child), child)

Do_Div_children ==
    /\ node.kind = "Div"
    /\ \E children \in Iters(BodyNodes) :
          CallChildren(Div_children(node, children), children)

Do_Form_new ==
    /\ node = NoNode
    /\ StartContainer(Form_new)

Do_Form_child ==
    /\ node.kind = "Form"
    /\ \E child \in BodyNodes : CallChild(Form_child(node, child), child)

Do_Form_children ==
    /\ node.kind = "Form"
    /\ \E children \in Iters(BodyNodes) :
          CallChildren(Form_children(node, children), children)

\* p()
Do_p ==
    /\ node = NoNode
    /\ StartContainer(P_default)

Do_P_child ==
    /\ node.kind = "P"
    /\ \E child \in BodyNodes : CallChild(P_child(node, child), child)

Do_P_children ==
    /\ node.kind = "P"
    /\ \E children \in Iters(BodyNodes) :
          CallChildren(P_children(node, children), children)

Do_Select_new ==
    /\ node = NoNode
    /\ StartContainer(Select_new)

Do_Select_child ==
    /\ node.kind = "Select"
    /\ \E child \in SelectOptions : CallChild(Select_child(node, child), child)

Do_Select_children ==
    /\ node.kind = "Select"
    /\ \E children \in Iters(SelectOptions) :
          CallChildren(Select_children(node, children), children)

Do_Head_new ==
    /\ node = NoNode
    /\ StartContainer(Head_new)

Do_Head_child ==
    /\ node.kind = "Head"
    /\ \E child \in HeadNodes : CallChild(Head_child(node, child), child)

Do_Head_children ==
    /\ node.kind = "Head"
    /\ \E children \in Iters(HeadNodes) :
          CallChildren(Head_children(node, children), children)

NextCont ==
    \/ Do_Br
    \/ Do_Body_new
    \/ Do_Body_child
    \/ Do_Body_children
    \/ Do_Div_new
    \/ Do_Div_child
    \/ Do_Div_children
    \/ Do_Form_new
    \/ Do_Form_child
    \/ Do_Form_children
    \/ Do_p
    \/ Do_P_child
    \/ Do_P_children
    \/ Do_Select_new
    \/ Do_Select_child
    \/ Do_Select_children
    \/ Do_Head_new
    \/ Do_Head_child
    \/ Do_Head_children

SpecCont == Init /\ [][NextCont]_vars

\* the number of places of s at which sub starts
Count(s, sub) == Cardinality({i \in 1..Len(s) : StartsWithAt(s, i, sub)})

\* r holds, from place start on, a rendering of each node of nodes, one
\* wholly before the next, in sequence order
RECURSIVE InOrderFrom(_, _, _)
InOrderFrom(r, start, nodes) ==
    IF nodes = <<>> THEN TRUE
    ELSE \E c \in Renders(nodes[1]) : \E i \in start..Len(r) :
            /\ StartsWithAt(r, i, c)
            /\ InOrderFrom(r, i + Len(c), Tail(nodes))

ThreeHeadings ==
    <<Heading_attribute(Heading_new("H1", "1"), <<"id", "1">>),
      Heading_attribute(Heading_new("H1", "2"), <<"id", "2">>),
      Heading_attribute(Heading_new("H1", "3"), <<"id", "3">>)>>

\* C5: every rendering of a container holds the markup of the children
\* added to it (by child and children calls, in any mix) one wholly before
\* the next, in the order of addition; a document whose body got the
\* headings with ids 1, 2, 3 renders exactly three heading elements, in that
\* order.
ChildrenRenderedInOrder ==
    node.kind \in ContainerKinds =>
        /\ \A r \in Renders(node) : InOrderFrom(r, 1, Added)
        /\ (node.kind = "Body" /\ Added = ThreeHeadings) =>
              \A d \in HtmlRenders(Html_body(Html_default, node)) :
                  /\ Count(d, "<H1 ") = 3
                  /\ Count(d, "</H1>") = 3
                  /\ Contains(d, "<H1 id=\"1\">1</H1><H1 id=\"2\">2</H1><H1 id=\"3\">3</H1>")

ThreeHeadingsByChildAndChildren ==
    /\ node.kind = "Body"
    /\ Added = ThreeHeadings
    /\ lastOp.op = "children"
    /\ Len(lastOp.added) = 1

Child(self, child) ==
    CASE self.kind = "Body" -> Body_child(self, child)
      [] self.kind = "Div" -> Div_child(self, child)
      [] self.kind = "Form" -> Form_child(self, child)
      [] self.kind = "P" -> P_child(self, child)
      [] self.kind = "Select" -> Select_child(self, child)
      [] self.kind = "Head" -> Head_child(self, child)

RECURSIVE ChildEach(_, _)
ChildEach(self, children) ==
    IF children = <<>> THEN self
    ELSE ChildEach(Child(self, children[1]), Tail(children))

\* C6: children(iter) leaves the children already present in place, puts
\* the items of iter after them in iterator order, and yields the node that
\* child(x) for each item x in turn yields; child(c) makes the child count
\* one larger and puts c last.
ChildrenIsRepeatedChild ==
    /\ lastOp.op = "children" =>
          /\ node.children = lastOp.self.children \o lastOp.args
          /\ node = ChildEach(lastOp.self, lastOp.args)
    /\ lastOp.op = "child" =>
          /\ Len(node.children) = Len(lastOp.self.children) + 1
          /\ node.children[Len(node.children)] = lastOp.args[1]
          /\ SubSeq(node.children, 1, Len(lastOp.self.children)) = lastOp.self.children

ChildrenAfterChild ==
    /\ lastOp.op = "children"
    /\ node.kind = "Head"
    /\ Len(lastOp.self.children) = 1
    /\ Len(lastOp.args) = 2
    /\ lastOp.args[1] # lastOp.args[2]
    /\ lastOp.args[1] # lastOp.self.children[1]

(***************************************************************************)
(* Building a document: head and body calls on an Html.                    *)
(***************************************************************************)
MaxCalls == 3

\* Head::default(), and heads holding titles
Heads ==
    {Head_new,
     Head_child(Head_new, Heading_new("Title", "1")),
     Head_child(Head_new, Heading_new("Title", "2"))}

\* Body::default(), and bodies holding headings
Bodies ==
    {Body_new,
     Body_child(Body_new, Heading_new("H1", "1")),
     Body_child(Body_new, Heading_new("H1", "2")),
     Body_children(Body_new, <<Heading_new("H1", "1"), Heading_new("H1", "2")>>)}

Do_Html_head ==
    /\ Len(supplied) < MaxCalls
    /\ \E head \in Heads :
          /\ html' = Html_head(html, head)
          /\ supplied' = Append(supplied, <<"head", head>>)
    /\ UNCHANGED <<node, textSrc, attached, classValue, classLog, lastOp>>

Do_Html_body ==
    /\ Len(supplied) < MaxCalls
    /\ \E body \in Bodies :
          /\ html' = Html_body(html, body)
          /\ supplied' = Append(supplied, <<"body", body>>)
    /\ UNCHANGED <<node, textSrc, attached, classValue, classLog, lastOp>>

NextHtml ==
    \/ Do_Html_head
    \/ Do_Html_body

SpecHtml == Init /\ [][NextHtml]_vars

\* the value of the last call of the given part, or default when there was none
RECURSIVE LastSupplied(_, _, _)
LastSupplied(calls, part, default) ==
    IF calls = <<>> THEN default
    ELSE IF calls[Len(calls)][1] = part THEN calls[Len(calls)][2]
    ELSE LastSupplied(SubSeq(calls, 1, Len(calls) - 1), part, default)

EmptyHead == [kind |-> "Head", text |-> "", attrs |-> HashMap_new, children |-> <<>>]

EmptyBody == [kind |-> "Body", text |-> "", attrs |-> HashMap_new, children |-> <<>>]

\* C10: a new Html has a head and a body without children or attributes;
\* after any sequence of head and body calls the document holds exactly the
\* head of the last head call and the body of the last body call (nothing of
\* an earlier head or body is kept), and renders as that head followed by
\* that body.
HtmlHoldsLastHeadAndBody ==
    /\ html.head = LastSupplied(supplied, "head", EmptyHead)
    /\ html.body = LastSupplied(supplied, "body", EmptyBody)
    /\ HtmlRenders(html) =
          {"<!DOCTYPE html><html>" \o h \o b \o "</html>" :
              h \in Renders(LastSupplied(supplied, "head", EmptyHead)),
              b \in Renders(LastSupplied(supplied, "body", EmptyBody))}
    /\ supplied = <<>> =>
          HtmlRenders(html) = {"<!DOCTYPE html><html><head></head><body></body></html>"}

HeadAndBodyReplaced ==
    /\ Len(supplied) = 3
    /\ supplied[1][1] = "head"
    /\ supplied[1][2].children # <<>>
    /\ supplied[2][1] = "head"
    /\ supplied[2][2].children # <<>>
    /\ supplied[2][2] # supplied[1][2]
    /\ supplied[3][1] = "body"
    /\ supplied[3][2].children # <<>>

\* the place of the first occurrence of sub in s, 0 when there is none
FirstAt(s, sub) ==
    LET at == {i \in 1..Len(s) : StartsWithAt(s, i, sub)}
    IN  IF at = {} THEN 0 ELSE CHOOSE i \in at : \A j \in at : i <= j

Doctype == "<!DOCTYPE html>"

\* C11: every rendering of a document is "<!DOCTYPE html><html>", then a
\* rendering of its head, then a rendering of its body, then "</html>"; the
\* document-type declaration comes first and occurs once, and the head
\* element starts before the body element.
HtmlIsDoctypeHeadBody ==
    \A d \in HtmlRenders(html) :
        /\ \E h \in Renders(html.head), b \in Renders(html.body) :
              d = "<!DOCTYPE html><html>" \o h \o b \o "</html>"
        /\ FirstAt(d, Doctype) = 1
        /\ Count(d, Doctype) = 1
        /\ FirstAt(d, "<head>") = Len(Doctype) + Len("<html>") + 1
        /\ FirstAt(d, "<head>") < FirstAt(d, "<body")

HtmlWithHeadAndBody ==
    /\ html.head.children # <<>>
    /\ Len(html.body.children) = 2
    /\ \E d \in HtmlRenders(html) : Contains(d, "<Title >1</Title>")

\* C12: a line break is the one value Br and renders to exactly "<br/>";
\* as a child of a container it contributes exactly "<br/>" between the
\* renderings of the children before it and of those after it.
BrRendersAsBr ==
    /\ node.kind = "Br" => (node = Br /\ Renders(node) = {"<br/>"})
    /\ node.kind \in ContainerKinds =>
          \A i \in 1..Len(node.children) :
              node.children[i].kind = "Br" =>
                  /\ node.children[i] = Br
                  /\ \A r \in Renders(node) :
                        \E pre \in RendersAll(SubSeq(node.children, 1, i - 1)),
                           post \in RendersAll(SubSeq(node.children, i + 1, Len(node.children))) :
                            Contains(r, ">" \o pre \o "<br/>" \o post \o "</")

BrBetweenHeadings ==
    /\ node.kind = "Div"
    /\ Len(node.children) = 3
    /\ node.children[1].kind = "H1"
    /\ node.children[2] = Br
    /\ node.children[3].kind = "H1"

(***************************************************************************)
(* Building any leaf tag, an Input, a Meta or a Form and attaching         *)
(* attributes to it.                                                       *)
(***************************************************************************)
Hrefs == {"https://example.com", "/x?a=\"b\""}
Ids == {"1", "some-id"}

Do_A_href ==
    /\ node.kind = "A"
    /\ Len(attached) < MaxAttach
    /\ \E href \in Hrefs :
          /\ node' = A_href(node, href)
          /\ attached' = Append(attached, <<"href", href>>)
          /\ lastOp' = [op |-> "href", self |-> node, args |-> <<href>>,
                        added |-> <<A_href(node, href)>>]
    /\ UNCHANGED <<textSrc, classValue, classLog, html, supplied>>

Do_A_id ==
    /\ node.kind = "A"
    /\ Len(attached) < MaxAttach
    /\ \E id \in Ids :
          /\ node' = A_id(node, id)
          /\ attached' = Append(attached, <<"id", id>>)
          /\ lastOp' = [op |-> "id", self |-> node, args |-> <<id>>,
                        added |-> <<A_id(node, id)>>]
    /\ UNCHANGED <<textSrc, classValue, classLog, html, supplied>>

Do_Input_new ==
    /\ node = NoNode
    /\ Construct(Input_new, "default", "")

Do_Input_attribute ==
    /\ node.kind = "Input"
    /\ \E c \in InputAttr : \E pair \in into_attribute(c) :
          Attach(Input_attribute(node, pair), pair)

Do_Meta_new ==
    /\ node = NoNode
    /\ Construct(Meta_new, "default", "")

Do_Meta_attribute ==
    /\ node.kind = "Meta"
    /\ \E attr \in MetaAttr : \E pair \in into_attribute(attr) :
          Attach(Meta_attribute(node, pair), pair)

Do_Meta_raw_attribute ==
    /\ node.kind = "Meta"
    /\ \E kv \in RawPairs : Attach(raw_attribute(node, kv[1], kv[2]), kv)

Do_Form_attribute ==
    /\ node.kind = "Form"
    /\ \E attr \in FormAttr : \E res \in into_attribute(attr) :
          Attach(Form_attribute(node, res), res)

NextTags ==
    \/ Do_Heading_new
    \/ Do_raw_attribute
    \/ Do_A_new
    \/ Do_A_text
    \/ Do_A_attribute
    \/ Do_A_href
    \/ Do_A_id
    \/ Do_SelectOption_new
    \/ Do_SelectOption_text
    \/ Do_NoScript_new
    \/ Do_StyleTag_new
    \/ Do_Img_new
    \/ Do_Img_attribute
    \/ Do_Br
    \/ Do_Input_new
    \/ Do_Input_attribute
    \/ Do_Meta_new
    \/ Do_Meta_attribute
    \/ Do_Meta_raw_attribute
    \/ Do_Form_new
    \/ Do_Form_attribute

SpecTags == Init /\ [][NextTags]_vars

\* C13: for every attribute (name, value) a node holds, every rendering of
\* the node contains name="value" with the value as it is stored, whatever
\* characters it holds (a double quote, <, &), and the value stored is the
\* value that was attached.  A Text holds the attributes attached to it and
\* writes none of them.
AttributeValuesVerbatim ==
    node.kind # "none" =>
        \A name \in DOMAIN node.attrs :
            /\ <<"Some", node.attrs[name]>> = LastAttached(name)
            /\ \A r \in Renders(node) :
                  Contains(r, name \o "=\"" \o node.attrs[name] \o "\"")

VoidElements == {"Br", "Img", "Input", "Meta"}
TextLeaves == (HeadingLike \ {"Text"}) \cup {"A", "SelectOption", "NoScript", "StyleTag"}

\* the tag name of an open tag: what stands between its < and the first
\* blank, quote, / or >
OpenTagName(open) ==
    LET ends == {i \in 2..Len(open) : SubSeq(open, i, i) \in {" ", "\"", "/", ">"}}
    IN  SubSeq(open, 2, (CHOOSE i \in ends : \A j \in ends : i <= j) - 1)

EndsWith(s, suf) ==
    /\ Len(s) >= Len(suf)
    /\ SubSeq(s, Len(s) - Len(suf) + 1, Len(s)) = suf

\* C14: a void element (Br, Img, Input, Meta) renders as one self-closing
\* tag: it starts with <, ends in />, has no > before the end and no close
\* tag; every other leaf (headings, Label, Title, A, SelectOption, NoScript,
\* StyleTag) renders as its open tag, then its text, then </name> with name
\* the tag name of the open tag.
VoidSelfClosesLeafCloses ==
    /\ node.kind \in VoidElements =>
          \A r \in Renders(node) :
              /\ StartsWithAt(r, 1, "<")
              /\ EndsWith(r, "/>")
              /\ FirstAt(r, ">") = Len(r)
              /\ ~Contains(r, "</")
    /\ node.kind \in TextLeaves =>
          \A r \in Renders(node) :
              LET open == OpenTagOf(r)
                  name == OpenTagName(open)
              IN  /\ StartsWithAt(open, 1, "<")
                  /\ name # ""
                  /\ r = open \o node.text \o "</" \o name \o ">"

LabelWithTextAndAttribute ==
    /\ node.kind = "Label"
    /\ node.text = "1&lt;2"
    /\ DOMAIN node.attrs = {"id", "data-x"}

(***************************************************************************)
(* Building a document tree out of members of every variant of BodyNode    *)
(* and HeadNode, each member converted into its grouping union.            *)
(***************************************************************************)
MaxBody == 2
MaxHead == 1

\* one member of every variant of BodyNode
BodyMembers ==
    {Heading_new(name, "hi") : name \in Headings}
        \cup {Heading_new("Label", "l"),
              Heading_new("Text", "t"),
              P_child(P_new("p"), Heading_new("Text", "t")),
              Form_child(Form_attribute(Form_new, Method_into_attribute("Post")),
                         Input_attribute(Input_new, Type_into_attribute("Text"))),
              Br,
              Div_child(Div_new, Br),
              A_href(A_new, "https://example.com"),
              Input_attribute(Input_new, Type_into_attribute("Email")),
              Select_child(Select_new, SelectOption_text(SelectOption_new, "o")),
              NoScript_new("n"),
              Img_attribute(Img_new, <<"src", "cat.jpeg">>)}

\* one member of every variant of HeadNode
HeadMembers ==
    {Heading_new("Title", "t"),
     Meta_attribute(Meta_new, MetaName_into_attribute("Charset")),
     StyleTag_new("s")}

\* the types T with into_grouping_union!(T, BodyNode), into_grouping_union!(T, HeadNode)
BodyNodeFrom ==
    {"H1", "H2", "H3", "H4", "H5", "H6", "P", "Text", "Form", "Br", "Div", "A", "Input",
     "Label", "Select", "NoScript"}

HeadNodeFrom == {"Title", "Meta", "StyleTag"}

\* there is no impl From<T> for the union
NoConversion == [variant |-> "none", value |-> NoNode]

\* $enum_name::$name(t)
into_grouping_union(name, t) == [variant |-> name, value |-> t]

BodyNode_from(t) ==
    IF t.kind \in BodyNodeFrom THEN into_grouping_union(t.kind, t) ELSE NoConversion

HeadNode_from(t) ==
    IF t.kind \in HeadNodeFrom THEN into_grouping_union(t.kind, t) ELSE NoConversion

\* as_h1, as_h2, ..., as_img: the accessor for variant name
BodyNode_as(self, name) ==
    IF self.variant = name THEN <<"Some", self.value>> ELSE <<"None">>

\* Display of a union value
BodyNode_fmt(self) == enum_display(self.value)

\* x.into(), then Body::child and Html::body when the conversion exists
Do_BodyNode_from ==
    /\ Len(html.body.children) < MaxBody
    /\ \E x \in BodyMembers :
          /\ lastOp' = [op |-> "from", self |-> x, args |-> <<>>,
                        added |-> <<BodyNode_from(x)>>]
          /\ html' = IF BodyNode_from(x) # NoConversion
                     THEN Html_body(html, Body_child(html.body, x))
                     ELSE html
    /\ UNCHANGED <<node, textSrc, attached, classValue, classLog, supplied>>

\* BodyNode::Img(x), then Body::child and Html::body
Do_BodyNode_Img ==
    /\ Len(html.body.children) < MaxBody
    /\ \E x \in {m \in BodyMembers : m.kind = "Img"} :
          /\ lastOp' = [op |-> "variant", self |-> x, args |-> <<>>,
                        added |-> <<into_grouping_union("Img", x)>>]
          /\ html' = Html_body(html, Body_child(html.body, x))
    /\ UNCHANGED <<node, textSrc, attached, classValue, classLog, supplied>>

\* x.into(), then Head::child and Html::head
Do_HeadNode_from ==
    /\ Len(html.head.children) < MaxHead
    /\ \E x \in HeadMembers :
          /\ lastOp' = [op |-> "from", self |-> x, args |-> <<>>,
                        added |-> <<HeadNode_from(x)>>]
          /\ html' = Html_head(html, Head_child(html.head, x))
    /\ UNCHANGED <<node, textSrc, attached, classValue, classLog, supplied>>

NextDoc ==
    \/ Do_BodyNode_from
    \/ Do_BodyNode_Img
    \/ Do_HeadNode_from

SpecDoc == Init /\ [][NextDoc]_vars

\* C15: every document tree renders: it has a rendering, no rendering
\* holds the outcome of the panic arm, and every variant of BodyNode and of
\* HeadNode has an arm in enum_display.
RenderingIsTotal ==
    /\ BodyNodeVariants \subseteq BodyNodeArms
    /\ HeadNodeVariants \subseteq HeadNodeArms
    /\ HtmlRenders(html) # {}
    /\ \A d \in HtmlRenders(html) : ~Contains(d, Panic)
    /\ \A i \in DOMAIN html.body.children :
          /\ html.body.children[i].kind \in BodyNodeVariants
          /\ Panic \notin enum_display(html.body.children[i])
    /\ \A i \in DOMAIN html.head.children :
          /\ html.head.children[i].kind \in HeadNodeVariants
          /\ Panic \notin enum_display(html.head.children[i])

DocumentWithLabelAndMeta ==
    /\ Len(html.body.children) = 2
    /\ html.body.children[1].kind = "Label"
    /\ html.body.children[2].kind = "Form"
    /\ Len(html.head.children) = 1
    /\ html.head.children[1].kind = "Meta"

\* C18: for every member x of a variant T of BodyNode, BodyNode::from(x)
\* exists and is the variant T wrapping x unchanged, the accessor for T
\* returns Some(x), every other accessor returns None, and the union value
\* renders to the same texts as x.
ConversionTotalAndLossless ==
    (lastOp.op = "from" /\ lastOp.self.kind \in BodyNodeVariants) =>
        LET x == lastOp.self
            b == lastOp.added[1]
        IN  /\ b # NoConversion
            /\ b = [variant |-> x.kind, value |-> x]
            /\ BodyNode_as(b, x.kind) = <<"Some", x>>
            /\ \A other \in BodyNodeVariants \ {x.kind} : BodyNode_as(b, other) = <<"None">>
            /\ BodyNode_fmt(b) = Renders(x)

(***************************************************************************)
(* Rendering a node twice, and rendering a second node of the same type    *)
(* that holds the same attributes.  Every HashMap::new() takes a fresh     *)
(* RandomState, so each map has an iteration order of its own; a map that  *)
(* is not modified keeps its order.                                        *)
(***************************************************************************)
Do_Div_attribute ==
    /\ node.kind = "Div"
    /\ \E a \in DivAttr : \E pair \in into_attribute(a) :
          Attach(Div_attribute(node, pair), pair)

\* the text to_string yields for n when its map hands out its entries in order ord
to_string(n, ord) ==
    IF n.kind = "Div"
    THEN CHOOSE r \in {Div_fmt(n, ord, inner) : inner \in RendersAll(n.children)} : TRUE
    ELSE heading_display(n, ord)

RECURSIVE AttachAll(_, _, _)
\* the node n after the attribute calls for the names of names, in that order
AttachAll(n, attrs, names) ==
    IF names = <<>> THEN n
    ELSE AttachAll(Heading_attribute(n, <<names[1], attrs[names[1]]>>), attrs, Tail(names))

\* node.to_string() twice, and twin.to_string() for a second node built
\* with the same attributes attached in the order calls
Do_to_string ==
    /\ node.kind \in {"H1", "Div"}
    /\ \E calls \in Orders(DOMAIN node.attrs) :
       \E ord \in Orders(DOMAIN node.attrs), twinOrd \in Orders(DOMAIN node.attrs) :
          LET twin == AttachAll([node EXCEPT !.attrs = HashMap_new], node.attrs, calls)
          IN  lastOp' = [op |-> "to_string", self |-> node, args |-> <<twin>>,
                         added |-> <<to_string(node, ord), to_string(node, ord),
                                     to_string(twin, twinOrd)>>]
    /\ UNCHANGED <<node, textSrc, attached, classValue, classLog, html, supplied>>

NextOrder ==
    \/ Do_h1
    \/ Do_Heading_attribute
    \/ Do_Div_new
    \/ Do_Div_attribute
    \/ Do_to_string

SpecOrder == Init /\ [][NextOrder]_vars

\* C16: rendering the same node twice yields the same text, and a second
\* node of the same type holding the same (name, value) attributes renders
\* to the same text as the first, whatever order the attributes were
\* attached in.
AttributeOrderDeterministic ==
    lastOp.op = "to_string" =>
        /\ lastOp.args[1].attrs = lastOp.self.attrs
        /\ lastOp.added[1] = lastOp.added[2]
        /\ lastOp.added[1] = lastOp.added[3]

\* C17: after any sequence of attribute, raw_attribute, text and
\* text_unsanitized calls every attribute name of a SelectOption is one of
\* value, id, name, and every attribute name of a heading is one of class,
\* id, style.
AttributeNamesConfined ==
    /\ node.kind = "SelectOption" => DOMAIN node.attrs \subseteq {"value", "id", "name"}
    /\ node.kind \in Headings => DOMAIN node.attrs \subseteq {"class", "id", "style"}

TypeValues ==
    {"text", "email", "password", "textarea", "submit", "hidden", "datetime-local",
     "checkbox"}

\* C19: an anchor's target attribute, when present, is "_blank", a form's
\* method attribute is "post" or "get", an input's type attribute is one of
\* the eight type values; two different variants of Type, of Method or of
\* Target never convert to the same value.
EnumeratedValuesLegal ==
    /\ (node.kind = "A" /\ "target" \in DOMAIN node.attrs) =>
          node.attrs["target"] = "_blank"
    /\ (node.kind = "Form" /\ "method" \in DOMAIN node.attrs) =>
          node.attrs["method"] \in {"post", "get"}
    /\ (node.kind = "Input" /\ "type" \in DOMAIN node.attrs) =>
          node.attrs["type"] \in TypeValues
    /\ \A v, w \in TypeVariants :
          v # w => Type_into_attribute(v) # Type_into_attribute(w)
    /\ \A v, w \in MethodVariants :
          v # w => Method_into_attribute(v) # Method_into_attribute(w)
    /\ \A v, w \in TargetVariants :
          v # w => into_attribute([variant |-> "Target", value |-> v])
                       # into_attribute([variant |-> "Target", value |-> w])
    /\ {Type_into_attribute(v)[2] : v \in TypeVariants} = TypeValues

InputTypeSetTwice ==
    /\ node.kind = "Input"
    /\ Len(attached) = 3
    /\ attached[1] = <<"type", "text">>
    /\ attached[2] = <<"value", "say \"hi\"">>
    /\ attached[3] = <<"type", "datetime-local">>
    /\ node.attrs["type"] = "datetime-local"

\* C20: a.href(s) yields the node a.attribute(Href::new(s)) yields, and
\* a.id(s) the node a.attribute(Id::new(s)) yields: afterwards
\* read_attribute("href") is Some(s) whatever href a had, and the other
\* attributes and the text are those of a.
HrefIsAttributeHref ==
    lastOp.op \in {"href", "id"} =>
        LET a == lastOp.self
            s == lastOp.args[1]
            r == lastOp.added[1]
            attr == IF lastOp.op = "href" THEN Href_new(s) ELSE Id_new(s)
        IN  /\ \A res \in into_attribute(attr) : r = A_attribute(a, res)
            /\ read_attribute(r, lastOp.op) = <<"Some", s>>
            /\ DOMAIN r.attrs = DOMAIN a.attrs \cup {lastOp.op}
            /\ \A n \in DOMAIN a.attrs \ {lastOp.op} : r.attrs[n] = a.attrs[n]
            /\ r.text = a.text
            /\ r.kind = "A"

HrefOverwritten ==
    /\ lastOp.op = "href"
    /\ read_attribute(lastOp.self, "href") = <<"Some", "https://example.com">>
    /\ lastOp.args = <<"/x?a=\"b\"">>
    /\ "target" \in DOMAIN lastOp.self.attrs
    /\ lastOp.self.text = "hi"
    /\ node = lastOp.added[1]

(***************************************************************************)
(* Building a paragraph: constructors, text, text_unsanitized, child and   *)
(* children calls.                                                         *)
(***************************************************************************)
PTexts == {"hi", "1<2"}

Do_P_text ==
    /\ node.kind = "P"
    /\ Len(node.children) < MaxChildren
    /\ \E t \in PTexts :
          /\ node' = P_text(node, t)
          /\ textSrc' = [via |-> "text", input |-> t]
          /\ lastOp' = [op |-> "text", self |-> node,
                        args |-> <<Heading_new("Text", t)>>, added |-> Added]
    /\ UNCHANGED <<attached, classValue, classLog, html, supplied>>

Do_P_text_unsanitized ==
    /\ node.kind = "P"
    /\ Len(node.children) < MaxChildren
    /\ \E t \in PTexts :
          /\ node' = P_text_unsanitized(node, t)
          /\ textSrc' = [via |-> "text_unsanitized", input |-> t]
          /\ lastOp' = [op |-> "text_unsanitized", self |-> node,
                        args |-> <<Heading_new_unchecked("Text", t)>>, added |-> Added]
    /\ UNCHANGED <<attached, classValue, classLog, html, supplied>>

NextP ==
    \/ Do_P_new
    \/ Do_P_with_text
    \/ Do_P_new_unchecked
    \/ Do_P_text
    \/ Do_P_text_unsanitized
    \/ Do_P_child
    \/ Do_P_children

SpecP == Init /\ [][NextP]_vars

\* the texts paragraph p shows: its text field and its Text children
ShownTexts(p) ==
    {p.text} \cup {p.children[i].text : i \in {j \in DOMAIN p.children : p.children[j].kind = "Text"}}

\* C21: after p.text(t) the paragraph renders clean(t), after
\* p.text_unsanitized(t) it renders t, and in both cases the text p rendered
\* before (given to the constructor or to an earlier text call) is no longer
\* rendered: the text field holds the new text and no child was added.
PTextOverwrites ==
    lastOp.op \in {"text", "text_unsanitized"} =>
        LET p == lastOp.self
            new == IF lastOp.op = "text" THEN clean(textSrc.input) ELSE textSrc.input
        IN  /\ node.text = new
            /\ node.children = p.children
            /\ \A r \in Renders(node) :
                  /\ Contains(r, new)
                  /\ \A old \in ShownTexts(p) :
                        (old # "" /\ ~Contains(new, old)) => ~Contains(r, old)

\* C29: a paragraph renders its open tag, then its own text field, then its
\* children in insertion order, then "</p>", whatever the order of the calls
\* that built it; P::new(t) and P::with_text(t) build the same node, with
\* text clean(t), no attributes and no children.
ParagraphTextBeforeChildren ==
    node.kind = "P" =>
        /\ \A r \in Renders(node) :
              /\ OpenTagOf(r) = "<p >"
              /\ \E inner \in RendersAll(node.children) :
                    AfterOpenTag(r) = node.text \o inner \o "</p>"
        /\ (lastOp = NoOp /\ textSrc.via \in {"new", "with_text"}) =>
              /\ node = [kind |-> "P", text |-> clean(textSrc.input),
                         attrs |-> HashMap_new, children |-> <<>>]
              /\ P_new(textSrc.input) = P_with_text(textSrc.input)

ParagraphWithTextAndChildren ==
    /\ node.kind = "P"
    /\ node.text = "1&lt;2"
    /\ Len(node.children) = 2
    /\ node.children[1].kind = "H1"
    /\ node.children[2].kind = "Text"
    /\ node.children[2].text = "hi"

(***************************************************************************)
(* Text calls on an anchor and on a select-option, keeping in lastOp.added *)
(* the texts the node stored before each call.                             *)
(***************************************************************************)
MaxTextCalls == 2

CallText(n, via, t) ==
    /\ Len(lastOp.added) < MaxTextCalls
    /\ node' = n
    /\ textSrc' = [via |-> via, input |-> t]
    /\ lastOp' = [op |-> via, self |-> node, args |-> <<t>>,
                  added |-> Append(lastOp.added, node.text)]
    /\ UNCHANGED <<attached, classValue, classLog, html, supplied>>

Do_A_text_call ==
    /\ node.kind = "A"
    /\ \E t \in PTexts : CallText(A_text(node, t), "text", t)

Do_A_text_unsanitized_call ==
    /\ node.kind = "A"
    /\ \E t \in PTexts : CallText(A_text_unsanitized(node, t), "text_unsanitized", t)

Do_SelectOption_text_call ==
    /\ node.kind = "SelectOption"
    /\ \E t \in PTexts : CallText(SelectOption_text(node, t), "text", t)

Do_SelectOption_text_unsanitized_call ==
    /\ node.kind = "SelectOption"
    /\ \E t \in PTexts :
          CallText(SelectOption_text_unsanitized(node, t), "text_unsanitized", t)

NextText ==
    \/ Do_A_new
    \/ Do_A_text_call
    \/ Do_A_text_unsanitized_call
    \/ Do_A_attribute
    \/ Do_SelectOption_new
    \/ Do_SelectOption_text_call
    \/ Do_SelectOption_text_unsanitized_call
    \/ Do_SelectOption_attribute

SpecText == Init /\ [][NextText]_vars

\* C22: on an anchor and on a select-option, once text or text_unsanitized
\* has been called the stored text is clean(t) if the last such call was
\* text(t) and t if it was text_unsanitized(t); what follows the open tag in
\* the rendering is that text and the close tag, with nothing of the texts
\* stored before; the attribute map holds what the attribute calls put there.
LastTextCallWins ==
    (node.kind \in {"A", "SelectOption"} /\ lastOp.op \in {"text", "text_unsanitized"}) =>
        LET expected == IF lastOp.op = "text" THEN clean(textSrc.input) ELSE textSrc.input
            close == IF node.kind = "A" THEN "</a>" ELSE "</option>"
        IN  /\ node.text = expected
            /\ \A r \in Renders(node) : AfterOpenTag(r) = expected \o close
            /\ DOMAIN node.attrs = AttachedNames
            /\ \A n \in AttachedNames : <<"Some", node.attrs[n]>> = LastAttached(n)

TextSetTwiceOnAnchor ==
    /\ node.kind = "A"
    /\ lastOp.op = "text"
    /\ lastOp.added = <<"", "hi">>
    /\ node.text = "1&lt;2"
    /\ attached # <<>>

\* C28: a Text node renders to exactly its stored text; the attributes
\* attached to it through attribute or raw_attribute are stored and returned
\* by read_attribute but are no part of the rendering, which is the same as
\* that of the node without its attributes.
TextRendersOnlyText ==
    node.kind = "Text" =>
        /\ Renders(node) = {node.text}
        /\ Renders([node EXCEPT !.attrs = HashMap_new]) = Renders(node)
        /\ DOMAIN node.attrs = AttachedNames
        /\ \A n \in AttachedNames : read_attribute(node, n) = LastAttached(n)

TextWithAttributes ==
    /\ node.kind = "Text"
    /\ node.text = "hi"
    /\ {"id", "data-x"} \subseteq DOMAIN node.attrs

\* C26: in the rendering of every node that writes its attributes, each
\* attribute name is preceded by a whitespace character, which separates it
\* from the tag name and from the closing quote of the attribute before it.
AttributesSeparated ==
    node.kind \in TaggedLeafKinds \cup {"P"} =>
        \A r \in Renders(node) : \A n \in DOMAIN node.attrs :
            Contains(OpenTagOf(r), " " \o n \o "=\"")

(***************************************************************************)
(* The attribute grouping enums and the attribute method of every node     *)
(* type that has one.                                                      *)
(***************************************************************************)
Body_attribute(self, pair) ==
    [self EXCEPT !.attrs = HashMap_insert(self.attrs, pair[1], pair[2])]

Select_attribute(self, pair) ==
    [self EXCEPT !.attrs = HashMap_insert(self.attrs, pair[1], pair[2])]

\* the variants of each grouping enum
GroupingVariants ==
    [AAttr |-> {"Href", "Download", "Target", "Id", "Style"},
     HeadingAttr |-> {"Class", "Id", "Style"},
     DivAttr |-> {"Id", "Class", "Style"},
     FormAttr |-> {"Method", "Action", "Style"},
     InputAttr |-> {"Type", "Name", "Placeholder", "Id", "Class", "Value", "Style"},
     ImgAttr |-> {"Alt", "Src"},
     MetaAttr |-> {"Content", "MetaName"},
     PAttr |-> {"Id", "Class"},
     SelectAttr |-> {"Name", "Class", "Id"},
     SelectOptionAttr |-> {"Value", "Id", "Name"},
     BodyAttr |-> {"Style"}]

\* the grouping enum the attribute method of each node type takes
AttrOf ==
    [A |-> "AAttr", H1 |-> "HeadingAttr", Div |-> "DivAttr", Form |-> "FormAttr",
     Input |-> "InputAttr", Img |-> "ImgAttr", Meta |-> "MetaAttr", P |-> "PAttr",
     Select |-> "SelectAttr", SelectOption |-> "SelectOptionAttr", Body |-> "BodyAttr"]

\* values of each attribute type the model draws from
Members(variant) ==
    CASE variant = "Class" -> {Class_from("a"), Class_class(Class_from("a"), "b")}
      [] variant = "Id" -> {Id_new("1"), Id_new("2")}
      [] variant = "Style" -> {Style_new("s"), Style_new("t")}
      [] variant = "Href" -> {Href_new("/"), Href_new("1")}
      [] variant = "Download" -> {Download_new("f"), Download_new("g")}
      [] variant = "Target" -> {Target_Blank}
      [] variant = "Alt" -> {Alt_new("1"), Alt_new("2")}
      [] variant = "Src" -> {Src_new("1"), Src_new("cat.jpeg")}
      [] variant = "Name" -> {Name_new("n"), Name_new("content")}
      [] variant = "Value" -> {Value_new("1"), Value_new("name")}
      [] variant = "Placeholder" -> {Placeholder_new("1"), Placeholder_new("id")}
      [] variant = "Content" -> {Content_new("utf-8"), Content_new("name")}
      [] variant = "Action" -> {Action_new("/"), Action_new("get")}
      [] variant = "Type" -> {Type("Text"), Type("Email")}
      [] variant = "MetaName" -> {MetaName(v) : v \in MetaNameVariants}
      [] variant = "Method" -> {Method(v) : v \in MethodVariants}

GroupingMembers(union) == UNION {Members(v) : v \in GroupingVariants[union]}

\* X::attribute for the node type of self
attribute(self, pair) ==
    CASE self.kind = "A" -> A_attribute(self, pair)
      [] self.kind = "H1" -> Heading_attribute(self, pair)
      [] self.kind = "Div" -> Div_attribute(self, pair)
      [] self.kind = "Form" -> Form_attribute(self, pair)
      [] self.kind = "Input" -> Input_attribute(self, pair)
      [] self.kind = "Img" -> Img_attribute(self, pair)
      [] self.kind = "Meta" -> Meta_attribute(self, pair)
      [] self.kind = "P" -> P_attribute(self, pair)
      [] self.kind = "Select" -> Select_attribute(self, pair)
      [] self.kind = "SelectOption" -> SelectOption_attribute(self, pair)
      [] self.kind = "Body" -> Body_attribute(self, pair)

\* an attribute call; lastOp.added keeps the variants attached so far
Do_attribute ==
    /\ node.kind \in DOMAIN AttrOf
    /\ Len(attached) < MaxAttach
    /\ \E a \in GroupingMembers(AttrOf[node.kind]) : \E pair \in into_attribute(a) :
          /\ node' = attribute(node, pair)
          /\ attached' = Append(attached, pair)
          /\ lastOp' = [op |-> "attribute", self |-> node, args |-> <<a>>,
                        added |-> Append(lastOp.added, a.variant)]
    /\ UNCHANGED <<textSrc, classValue, classLog, html, supplied>>

NextAttr ==
    \/ Do_A_new
    \/ Do_h1
    \/ Do_Div_new
    \/ Do_Form_new
    \/ Do_Input_new
    \/ Do_Img_new
    \/ Do_Meta_new
    \/ Do_p
    \/ Do_Select_new
    \/ Do_SelectOption_new
    \/ Do_Body_new
    \/ Do_attribute

SpecAttr == Init /\ [][NextAttr]_vars

\* C27: the attribute just attached and any value of the node's grouping
\* enum convert to the same attribute name exactly if they are of the same
\* variant, whatever their values; so on a node built with attribute calls
\* the map has one entry per variant attached, and each variant's entry holds
\* the value of the last call with that variant, whatever was attached after.
VariantsHaveOwnNames ==
    /\ lastOp.op = "attribute" =>
          LET a == lastOp.args[1]
          IN  \A b \in GroupingMembers(AttrOf[node.kind]) :
              \A p \in into_attribute(a), q \in into_attribute(b) :
                  (a.variant = b.variant) <=> (p[1] = q[1])
    /\ node.kind \in DOMAIN AttrOf =>
          /\ Cardinality(DOMAIN node.attrs) = Cardinality(Range(lastOp.added))
          /\ \A i \in DOMAIN attached :
                (\A j \in DOMAIN attached : j > i => lastOp.added[j] # lastOp.added[i])
                    => read_attribute(node, attached[i][1]) = <<"Some", attached[i][2]>>

MetaWithNameAndContent ==
    /\ node.kind = "Meta"
    /\ lastOp.added = <<"Content", "MetaName", "Content">>
    /\ Cardinality(DOMAIN node.attrs) = 2

CloseTag(kind) ==
    CASE kind = "Body" -> "</body>"
      [] kind = "Div" -> "</div>"
      [] kind = "Form" -> "</form>"
      [] kind = "Select" -> "</select>"
      [] kind = "Head" -> "</head>"

\* the one text each child of self renders to
ChildTexts(self) ==
    [i \in DOMAIN self.children |-> CHOOSE x \in Renders(self.children[i]) : TRUE]

\* C24: every rendering of a Body, Div, Form, Select or Head is its open
\* tag, then the renderings of its children one directly after the other,
\* each once and in sequence order, then its close tag, with no character
\* between the open tag and the first child or between two siblings.
ContainerIsTagsAroundChildren ==
    node.kind \in {"Body", "Div", "Form", "Select", "Head"} =>
        /\ \A i \in DOMAIN node.children : Cardinality(Renders(node.children[i])) = 1
        /\ \A r \in Renders(node) :
              r = OpenTagOf(r) \o join(ChildTexts(node), "") \o CloseTag(node.kind)

DivWithBrAndHeading ==
    /\ node.kind = "Div"
    /\ Len(node.children) = 2
    /\ node.children[1] = Br
    /\ node.children[2].kind = "H1"

(***************************************************************************)
(* Rendering a tree of nested Divs one step at a time. While fmt runs,     *)
(* lastOp holds the tree borrowed (self), the stack of fmt calls in        *)
(* progress (args, innermost first; at is the position of a Div's fmt:     *)
(* 0 before the open tag, i at child i, Len + 1 at the close tag) and the  *)
(* texts written so far (added).                                           *)
(***************************************************************************)
MaxDepth == 2

Leaves == {Br, Heading_attribute(Heading_new("H1", "1"), <<"id", "1">>)}

RECURSIVE Depth(_)
\* how deep the Divs of n are nested
Depth(n) ==
    LET ds == {Depth(n.children[i]) : i \in DOMAIN n.children} \cup {0}
    IN  IF n.kind # "Div" THEN 0 ELSE 1 + (CHOOSE d \in ds : \A e \in ds : e <= d)

Rendering == lastOp.op = "fmt" /\ lastOp.args # <<>>

Do_Div_child_leaf ==
    /\ node.kind = "Div"
    /\ ~Rendering
    /\ \E child \in Leaves : CallChild(Div_child(node, child), child)

\* Div::new().child(node): the Div built so far becomes the first child of a new one
Do_Div_child_Div ==
    /\ node.kind = "Div"
    /\ ~Rendering
    /\ Depth(node) < MaxDepth
    /\ StartContainer(Div_child(Div_new, node))

fmt_steps_unclosed(stack, out) ==
    LET fr == stack[1]
        n == fr.self
        rest == Tail(stack)
    IN  IF n.kind # "Div"
        THEN {[stack |-> rest, out |-> Append(out, r)] : r \in enum_display(n)}
        ELSE IF fr.at = 0
        THEN {[stack |-> <<[fr EXCEPT !.at = 1]>> \o rest,
               out |-> Append(out, "<div" \o write_attrs_inline(n.attrs, ord) \o ">")] :
                 ord \in Orders(DOMAIN n.attrs)}
        ELSE IF fr.at <= Len(n.children)
        THEN {[stack |-> <<[self |-> n.children[fr.at], at |-> 0],
                           [fr EXCEPT !.at = fr.at + 1]>> \o rest,
               out |-> out]}
        ELSE {[stack |-> rest, out |-> out]}

\* one step of the innermost fmt call: a leaf writes its text and returns; a
\* Div writes its open tag, then calls fmt on its next child, then writes
\* its close tag and returns
fmt_steps(stack, out) ==
    LET fr == stack[1]
        n == fr.self
        rest == Tail(stack)
    IN  IF n.kind # "Div"
        THEN {[stack |-> rest, out |-> Append(out, r)] : r \in enum_display(n)}
        ELSE IF fr.at = 0
        THEN {[stack |-> <<[fr EXCEPT !.at = 1]>> \o rest,
               out |-> Append(out, "<div" \o write_attrs_inline(n.attrs, ord) \o ">")] :
                 ord \in Orders(DOMAIN n.attrs)}
        ELSE IF fr.at <= Len(n.children)
        THEN {[stack |-> <<[self |-> n.children[fr.at], at |-> 0],
                           [fr EXCEPT !.at = fr.at + 1]>> \o rest,
               out |-> out]}
        ELSE {[stack |-> rest, out |-> Append(out, "</div>")]}

\* node.to_string(): fmt is called on the tree
Do_fmt ==
    /\ node.kind = "Div"
    /\ lastOp.op # "fmt"
    /\ lastOp' = [op |-> "fmt", self |-> node, args |-> <<[self |-> node, at |-> 0]>>,
                  added |-> <<>>]
    /\ UNCHANGED <<node, textSrc, attached, classValue, classLog, html, supplied>>

Do_fmt_step ==
    /\ Rendering
    /\ \E next \in fmt_steps(lastOp.args, lastOp.added) :
          lastOp' = [lastOp EXCEPT !.args = next.stack, !.added = next.out]
    /\ UNCHANGED <<node, textSrc, attached, classValue, classLog, html, supplied>>

NextRender ==
    \/ Do_Div_new
    \/ Do_Div_child_leaf
    \/ Do_Div_child_Div
    \/ Do_fmt
    \/ Do_fmt_step

\* fmt is a call: once made it runs until it returns
SpecRender == Init /\ [][NextRender]_vars /\ WF_vars(Do_fmt_step)

RECURSIVE NestedFrom(_, _)
\* the texts of written open and close their tags properly nested, depth tags being open
NestedFrom(written, depth) ==
    IF written = <<>> THEN depth = 0
    ELSE IF written[1] = "</div>" THEN depth > 0 /\ NestedFrom(Tail(written), depth - 1)
    ELSE IF StartsWithAt(written[1], 1, "<div") THEN NestedFrom(Tail(written), depth + 1)
    ELSE depth > 0 /\ NestedFrom(Tail(written), depth)

RECURSIVE Visits(_)
\* the texts a traversal visiting every node of n once writes: two for a Div, one for a leaf
Visits(n) ==
    IF n.kind # "Div" THEN 1
    ELSE LET RECURSIVE Sum(_)
             Sum(cs) == IF cs = <<>> THEN 0 ELSE Visits(cs[1]) + Sum(Tail(cs))
         IN  2 + Sum(n.children)

Rendered ==
    /\ lastOp.op = "fmt"
    /\ lastOp.args = <<>>
    /\ join(lastOp.added, "") \in Renders(lastOp.self)
    /\ NestedFrom(lastOp.added, 0)
    /\ Len(lastOp.added) = Visits(lastOp.self)
    /\ node = lastOp.self

\* C25: rendering a tree, once begun, comes to an end, and then it has
\* written the text of every node once, a Div's open tag before and its close
\* tag after the text of all its descendants, so that the tags written are
\* properly nested and the text is a rendering of the tree.
RenderingTerminatesNested == Rendering ~> Rendered

NestedDivRendered ==
    /\ lastOp.op = "fmt"
    /\ lastOp.args = <<>>
    /\ Depth(node) = 2
    /\ Len(node.children) = 2
    /\ node.children[1].kind = "Div"
    /\ Len(node.children[1].children) = 2
    /\ node.children[2] = Br

(***************************************************************************)
(* One builder chain: either a Div, a Form, a Select or a heading, with    *)
(* child, children, attribute, raw_attribute, read_attribute and to_string *)
(* calls in any order, or a document with head and body calls.             *)
(***************************************************************************)
BuildKinds == {"Div", "Form", "Select", "H1"}

\* the children the chain draws from
BuildPool(kind) == IF kind = "Select" THEN {o \in SelectOptions : o.text # "3"} ELSE Leaves

\* the attributes the chain draws from
BuildAttrs(kind) ==
    GroupingMembers(AttrOf[kind]) \cap {Id_new("1"), Style_new("s"), Name_new("n")}

Children(self, children) ==
    CASE self.kind = "Div" -> Div_children(self, children)
      [] self.kind = "Form" -> Form_children(self, children)
      [] self.kind = "Select" -> Select_children(self, children)

Do_child ==
    /\ node.kind \in BuildKinds \ {"H1"}
    /\ \E child \in BuildPool(node.kind) : CallChild(Child(node, child), child)

Do_children ==
    /\ node.kind \in BuildKinds \ {"H1"}
    /\ \E children \in Iters(BuildPool(node.kind)) :
          CallChildren(Children(node, children), children)

Do_attribute_call ==
    /\ node.kind \in BuildKinds
    /\ \E a \in BuildAttrs(node.kind) : \E pair \in into_attribute(a) :
          Attach(attribute(node, pair), pair)

\* Form has no raw_attribute
Do_raw_attribute_call ==
    /\ node.kind \in BuildKinds \ {"Form"}
    /\ \E kv \in {p \in RawPairs : p[1] = "id"} :
          Attach(raw_attribute(node, kv[1], kv[2]), kv)

\* read_attribute(&self, ..) and to_string(&self): the node is only read
Do_read_attribute ==
    /\ node.kind \in BuildKinds
    /\ \E a \in {"id", "style"} : read_attribute(node, a) \in {<<"None">>} \cup {<<"Some", v>> : v \in {"1", "9", "s"}}
    /\ lastOp' = [lastOp EXCEPT !.op = "read_attribute"]
    /\ UNCHANGED <<node, textSrc, attached, classValue, classLog, html, supplied>>

Do_fmt_call ==
    /\ node.kind \in BuildKinds
    /\ Renders(node) # {}
    /\ lastOp' = [lastOp EXCEPT !.op = "to_string"]
    /\ UNCHANGED <<node, textSrc, attached, classValue, classLog, html, supplied>>

NextBuild ==
    \/ (supplied = <<>> /\ (Do_Div_new \/ Do_Form_new \/ Do_Select_new \/ Do_h1))
    \/ Do_child
    \/ Do_children
    \/ Do_attribute_call
    \/ Do_raw_attribute_call
    \/ Do_read_attribute
    \/ Do_fmt_call
    \/ (node = NoNode /\ (Do_Html_head \/ Do_Html_body))

SpecBuild == Init /\ [][NextBuild]_vars

IsPrefix(s, t) == Len(s) <= Len(t) /\ SubSeq(t, 1, Len(s)) = s

MonotonicStep ==
    node.kind # "none" =>
        /\ node'.kind = node.kind
        /\ IsPrefix(node.children, node'.children)
        /\ DOMAIN node.attrs \subseteq DOMAIN node'.attrs

\* C23: every step of a builder chain leaves the child sequence the node had
\* as a prefix of the one it has after (no child is removed, replaced or
\* moved) and the attribute names it had a subset of those it has after.
MonotonicAccumulation == [][MonotonicStep]_vars

DivBuiltUp ==
    /\ node.kind = "Div"
    /\ Len(node.children) = 3
    /\ lastOp.op = "children"
    /\ Len(lastOp.args) = 2
    /\ DOMAIN node.attrs = {"id", "style"}
    /\ Len(attached) = 3

\* the maps differ in at most one entry, which after has
AtMostOneEntry(before, after) ==
    /\ DOMAIN before \subseteq DOMAIN after
    /\ \E k \in DOMAIN after :
          \A j \in DOMAIN after \ {k} : j \in DOMAIN before /\ before[j] = after[j]

FrameStep ==
    /\ (node.kind # "none" /\ attached' # attached) =>
          /\ node'.text = node.text
          /\ node'.children = node.children
          /\ AtMostOneEntry(node.attrs, node'.attrs)
          /\ html' = html
    /\ (lastOp'.op \in {"child", "children"} /\ lastOp' # lastOp) =>
          /\ node'.attrs = node.attrs
          /\ node'.text = node.text
          /\ html' = html
    /\ (supplied' # supplied /\ supplied'[Len(supplied')][1] = "head") =>
          (html'.body = html.body /\ node' = node)
    /\ (supplied' # supplied /\ supplied'[Len(supplied')][1] = "body") =>
          (html'.head = html.head /\ node' = node)
    /\ (lastOp'.op \in {"read_attribute", "to_string"} /\ lastOp' # lastOp) =>
          (node' = node /\ html' = html /\ attached' = attached)

\* C30: an attribute or raw_attribute call changes at most one entry of the
\* attribute map and neither text nor children; a child or children call
\* changes neither the attribute map nor the text; Html::head leaves the
\* body and Html::body the head as it was; read_attribute and rendering
\* change nothing of the node or the document.
OperationsChangeOwnComponent == [][FrameStep]_vars

FormWithChildThenAttribute ==
    /\ node.kind = "Form"
    /\ Len(node.children) = 2
    /\ DOMAIN node.attrs = {"style"}
    /\ lastOp.self.attrs = HashMap_new
    /\ Len(lastOp.self.children) = 1

DocumentHeadThenBody ==
    /\ Len(supplied) = 2
    /\ supplied[1][1] = "head"
    /\ supplied[2][1] = "body"
    /\ html.head # EmptyHead
    /\ html.body # EmptyBody

====
